---- MODULE Spec2Model ----
(***************************************************************************)
(* A model of intl-messageformat's IntlMessageFormat facade                *)
(* (src/packages/intl-pluralrules/scripts/cldr.ts, lines 33-315): the      *)
(* memoized formatter cache, the merge of the default formats with the     *)
(* caller's overrides, the constructor, and format().                      *)
(*                                                                         *)
(* JavaScript values are modelled as follows.                              *)
(*   - a string that is concatenated is a sequence of characters;          *)
(*   - an options record (a preset) is the sequence of its <<key, value>>  *)
(*     pairs in insertion order, the order Object.keys, object spread and  *)
(*     JSON.stringify all follow;                                          *)
(*   - objects that are shared by reference live in a heap and are named   *)
(*     by their address; 0 is the address of no object (undefined).        *)
(***************************************************************************)
EXTENDS Integers, Sequences, FiniteSets, TLC

VARIABLES
    stores,        \* heap of FormatterCache objects: {number, dateTime, pluralRules}
    fmts,          \* heap of Formatters objects; each closes over one FormatterCache
    made,          \* every Intl.* primitive instance constructed so far
    calls,         \* the getter calls so far: formatters object, getter, arguments, result
    heap,          \* heap of configuration objects: presets, categories, Formats
    staticFormats, \* IntlMessageFormat.formats: address of a Formats object
    staticParse,   \* IntlMessageFormat.__parse is set
    instances,     \* the IntlMessageFormat instances constructed so far
    lastNew,       \* outcome of the last `new IntlMessageFormat(...)`
    lastOp,        \* the operation that produced the current state
    mutations,     \* number of changes made to IntlMessageFormat.formats
    mIn,           \* mergeConfigs under test: its two arguments
    mOut,          \* mergeConfigs under test: its results
    fIn,           \* format under test: what the AST evaluated to, what formatToParts returned
    fOut           \* format under test: what format returned

cacheVars  == <<stores, fmts, made, calls>>
configVars == <<heap, staticFormats, staticParse, mutations>>
facadeVars == <<instances, lastNew>>
mergeVars  == <<mIn, mOut>>
formatVars == <<fIn, fOut>>
vars == <<stores, fmts, made, calls, heap, staticFormats, staticParse, instances,
          lastNew, lastOp, mutations, mIn, mOut, fIn, fOut>>

Undefined == "undefined"

(***************************************************************************)
(* Bounds of the model.                                                    *)
(***************************************************************************)
MaxCalls == 3
MaxParts == 3
MaxInstances == 2
MaxMutations == 2

(***************************************************************************)
(* Options records and getter arguments.                                   *)
(***************************************************************************)
Locales == {"en", "fr"}
Getters == {"number", "dateTime", "pluralRules"}

\* An options record: the <<key, value>> pairs of an object literal, no key twice.
\* The same two options in both orders, an option set to undefined, and fewer options.
OptionRecords ==
    { <<>>,
      << <<"style", "currency">> >>,
      << <<"style", "percent">> >>,
      << <<"style", Undefined>> >>,
      << <<"style", "currency">>, <<"currency", "USD">> >>,
      << <<"currency", "USD">>, <<"style", "currency">> >> }

Keys(o) == {o[i][1] : i \in DOMAIN o}
Lookup(o, k) == LET i == CHOOSE j \in DOMAIN o : o[j][1] = k IN o[i][2]

\* The options argument of a getter: an options record, or undefined.
Obj(props) == [t |-> "object", props |-> props]
NoOptions == [t |-> "undefined"]
OptionArgs == {Obj(o) : o \in OptionRecords}

\* Deep equality of two options arguments: the same keys with the same values.
DeepEqual(a, b) ==
    /\ a.t = b.t
    /\ a.t = "object" =>
          /\ Keys(a.props) = Keys(b.props)
          /\ \A k \in Keys(a.props) : Lookup(a.props, k) = Lookup(b.props, k)

(***************************************************************************)
(* The memoized getters.                                                   *)
(***************************************************************************)
\* JSON.stringify of one argument: a property whose value is undefined is left
\* out, the others are written in insertion order; undefined itself, as an
\* element of the arguments array, is written null.
JSONStringify(a) ==
    IF a.t = "undefined"
    THEN [t |-> "null"]
    ELSE [t |-> "object", props |-> SelectSeq(a.props, LAMBDA p : p[2] # Undefined)]

\* fast-memoize's default serializer on the arguments (locales, options).
serializer(locales, options) == [locales |-> locales, options |-> JSONStringify(options)]

\* createFastMemoizeCache(store): has, get, set on the store object.
has(store, key) == key \in DOMAIN store
get(store, key) == IF key \in DOMAIN store THEN store[key] ELSE [t |-> "undefined"]
set(store, key, value) == (key :> value) @@ store

\* `new Intl.X(locales, options)`: an object no earlier `new` returned.
New(getter, locales, options, all) ==
    [t |-> "instance", ctor |-> getter, locales |-> locales, options |-> options,
     n |-> 1 + Cardinality({x \in all : /\ x.ctor = getter
                                        /\ x.locales = locales
                                        /\ x.options = options})]

\* fast-memoize's variadic strategy: the stored value when there is one,
\* else the function's result, which it stores.
\* Returns the value, the store and the set of instances after the call.
\* (the stored value ignored: the function is called every time)
variadicNoLookup(getter, store, locales, options, all) ==
    LET computedValue == New(getter, locales, options, all) IN
    [value |-> computedValue,
     store |-> set(store, serializer(locales, options), computedValue),
     made |-> all \cup {computedValue}]

\* (the monadic strategy, which keys on the first argument alone)
monadic(getter, store, locales, options, all) ==
    LET cacheKey == serializer(locales, NoOptions)
        stored == get(store, cacheKey)
    IN  IF stored.t = "undefined"
        THEN LET computedValue == New(getter, locales, options, all) IN
             [value |-> computedValue,
              store |-> set(store, cacheKey, computedValue),
              made |-> all \cup {computedValue}]
        ELSE [value |-> stored, store |-> store, made |-> all]

variadic(getter, store, locales, options, all) ==
    LET cacheKey == serializer(locales, options)
        stored == get(store, cacheKey)
    IN  IF stored.t = "undefined"
        THEN LET computedValue == New(getter, locales, options, all) IN
             [value |-> computedValue,
              store |-> set(store, cacheKey, computedValue),
              made |-> all \cup {computedValue}]
        ELSE [value |-> stored, store |-> store, made |-> all]

\* The default value of createDefaultFormatters' parameter, and of the
\* formatterCache field.
EmptyStore == [k \in {} |-> [t |-> "undefined"]]
EmptyFormatterCache == [number |-> EmptyStore, dateTime |-> EmptyStore, pluralRules |-> EmptyStore]

\* createDefaultFormatters(cache): three getters memoized on cache.number,
\* cache.dateTime and cache.pluralRules.
createDefaultFormatters(cache) == [cache |-> cache]

\* A call of one getter of the Formatters object f.
Getter(f, getter, locales, options) ==
    LET c == fmts[f].cache
        r == variadic(getter, stores[c][getter], locales, options, made)
    IN  /\ stores' = [stores EXCEPT ![c][getter] = r.store]
        /\ made' = r.made
        /\ calls' = Append(calls, [f |-> f, getter |-> getter, locales |-> locales,
                                    options |-> options, value |-> r.value])
        /\ UNCHANGED fmts

getNumberFormat(f, locales, options) == Getter(f, "number", locales, options)
getDateTimeFormat(f, locales, options) == Getter(f, "dateTime", locales, options)
getPluralRules(f, locales, options) == Getter(f, "pluralRules", locales, options)

(***************************************************************************)
(* Configuration objects and mergeConfigs.                                 *)
(*                                                                         *)
(* heap.opt[a] is a preset (an options record), heap.cat[a] a category: a  *)
(* function from preset names to preset addresses, heap.top[a] a Formats   *)
(* object: a function from category names to category addresses.          *)
(***************************************************************************)
CategoryOrder == <<"number", "date", "time">>
PresetOrder == <<"currency", "percent", "short", "medium", "long", "full", "custom">>

Pos(order, k) == CHOOSE i \in DOMAIN order : order[i] = k
\* The place of key k among the keys S of an object, in Object.keys order.
Rank(order, S, k) == Cardinality({j \in S : Pos(order, j) <= Pos(order, k)})
KeyAt(order, S, i) == CHOOSE k \in S : Rank(order, S, k) = i
\* Object.keys(object) for the keys S.
ObjectKeys(order, S) == [i \in 1..Cardinality(S) |-> KeyAt(order, S, i)]

EmptyHeap == [opt |-> <<>>, cat |-> <<>>, top |-> <<>>]
EmptyObject == [k \in {} |-> 0]

\* {...a, ...b} on two options records.
Spread(a, b) ==
    [i \in DOMAIN a |-> IF a[i][1] \in Keys(b) THEN <<a[i][1], Lookup(b, a[i][1])>> ELSE a[i]]
    \o SelectSeq(b, LAMBDA p : p[1] \notin Keys(a))

\* mergeConfig(c1, c2) on the category objects at c1 and c2 (0: undefined).
\* Returns the heap after the call and the address of the result.
\* (without ...c2: only the presets of c1 are in the result)
mergeConfigDefaultsOnly(h, c1, c2) ==
    IF c2 = 0
    THEN [h |-> h, r |-> c1]
    ELSE LET o1 == h.cat[c1]
             o2 == h.cat[c2]
             ks == DOMAIN o1
             base == Len(h.opt)
             merged(k) == Spread(h.opt[o1[k]], IF k \in DOMAIN o2 THEN h.opt[o2[k]] ELSE <<>>)
             all == [i \in 1..Cardinality(ks) |-> merged(KeyAt(PresetOrder, ks, i))]
             result == [k \in ks |-> base + Rank(PresetOrder, ks, k)]
         IN  [h |-> [h EXCEPT !.opt = @ \o all, !.cat = Append(@, result)],
              r |-> Len(h.cat) + 1]

\* ({...c1, ...c2} alone: a preset of c2 replaces the preset of c1)
mergeConfigOverrideReplaces(h, c1, c2) ==
    IF c2 = 0
    THEN [h |-> h, r |-> c1]
    ELSE LET o1 == h.cat[c1]
             o2 == h.cat[c2]
             result == [k \in DOMAIN o1 \cup DOMAIN o2 |-> IF k \in DOMAIN o2 THEN o2[k] ELSE o1[k]]
         IN  [h |-> [h EXCEPT !.cat = Append(@, result)], r |-> Len(h.cat) + 1]

mergeConfig(h, c1, c2) ==
    IF c2 = 0
    THEN [h |-> h, r |-> c1]
    ELSE LET o1 == h.cat[c1]
             o2 == h.cat[c2]
             ks == DOMAIN o1
             base == Len(h.opt)
             \* all[k] = {...c1[k], ...(c2[k] || {})}
             merged(k) == Spread(h.opt[o1[k]], IF k \in DOMAIN o2 THEN h.opt[o2[k]] ELSE <<>>)
             all == [i \in 1..Cardinality(ks) |-> merged(KeyAt(PresetOrder, ks, i))]
             \* {...c1, ...c2, ...all}
             result == [k \in DOMAIN o1 \cup DOMAIN o2 |->
                           IF k \in ks THEN base + Rank(PresetOrder, ks, k) ELSE o2[k]]
         IN  [h |-> [h EXCEPT !.opt = @ \o all, !.cat = Append(@, result)],
              r |-> Len(h.cat) + 1]

\* The reduce of mergeConfigs over the keys ks of defaultConfig, from `all`.
RECURSIVE reduceConfigs(_, _, _, _, _)
reduceConfigs(h, all, ks, defaultConfig, configs) ==
    IF ks = <<>>
    THEN [h |-> h, all |-> all]
    ELSE LET k == Head(ks)
             m == mergeConfig(h, defaultConfig[k], IF k \in DOMAIN configs THEN configs[k] ELSE 0)
         IN  reduceConfigs(m.h, [all EXCEPT ![k] = m.r], Tail(ks), defaultConfig, configs)

\* mergeConfigs(defaultConfig, configs) on the Formats objects at the two
\* addresses (configs = 0: undefined).
\* (the reduce started from defaultConfig itself instead of {...defaultConfig})
mergeConfigsInPlace(h, defaultConfig, configs) ==
    IF configs = 0
    THEN [h |-> h, r |-> defaultConfig]
    ELSE LET d == h.top[defaultConfig]
             o == h.top[configs]
             m == reduceConfigs(h, d, ObjectKeys(CategoryOrder, DOMAIN d), d, o)
         IN  [h |-> [m.h EXCEPT !.top[defaultConfig] = m.all], r |-> defaultConfig]

\* (without the early return: a copy is made also when configs is undefined)
mergeConfigsCopy(h, defaultConfig, configs) ==
    LET d == h.top[defaultConfig]
        o == IF configs = 0 THEN EmptyObject ELSE h.top[configs]
        m == reduceConfigs(h, d, ObjectKeys(CategoryOrder, DOMAIN d), d, o)
    IN  [h |-> [m.h EXCEPT !.top = Append(@, m.all)], r |-> Len(h.top) + 1]

mergeConfigs(h, defaultConfig, configs) ==
    IF configs = 0
    THEN [h |-> h, r |-> defaultConfig]
    ELSE LET d == h.top[defaultConfig]
             o == h.top[configs]
             m == reduceConfigs(h, d, ObjectKeys(CategoryOrder, DOMAIN d), d, o)
         IN  [h |-> [m.h EXCEPT !.top = Append(@, m.all)], r |-> Len(h.top) + 1]

\* The value of the category at c and of the Formats object at t: what a
\* reader of the object sees.
CategoryValue(h, c) == [p \in DOMAIN h.cat[c] |-> h.opt[h.cat[c][p]]]
FormatsValue(h, t) == [k \in DOMAIN h.top[t] |-> CategoryValue(h, h.top[t][k])]

\* An object literal: the objects of the Formats value v, newly allocated.
NewCategory(h, cv) ==
    LET ks == DOMAIN cv
        base == Len(h.opt)
        all == [i \in 1..Cardinality(ks) |-> cv[KeyAt(PresetOrder, ks, i)]]
        result == [k \in ks |-> base + Rank(PresetOrder, ks, k)]
    IN  [h |-> [h EXCEPT !.opt = @ \o all, !.cat = Append(@, result)], r |-> Len(h.cat) + 1]

RECURSIVE NewCategories(_, _, _, _)
NewCategories(h, all, ks, v) ==
    IF ks = <<>>
    THEN [h |-> h, all |-> all]
    ELSE LET c == NewCategory(h, v[Head(ks)])
         IN  NewCategories(c.h, [all EXCEPT ![Head(ks)] = c.r], Tail(ks), v)

NewFormats(h, v) ==
    LET m == NewCategories(h, [k \in DOMAIN v |-> 0], ObjectKeys(CategoryOrder, DOMAIN v), v)
    IN  [h |-> [m.h EXCEPT !.top = Append(@, m.all)], r |-> Len(h.top) + 1]

\* Deep equality of two Formats values.
AsMap(o) == [k \in Keys(o) |-> Lookup(o, k)]
DeepEqualFormats(v, w) ==
    /\ DOMAIN v = DOMAIN w
    /\ \A k \in DOMAIN v :
          /\ DOMAIN v[k] = DOMAIN w[k]
          /\ \A p \in DOMAIN v[k] : AsMap(v[k][p]) = AsMap(w[k][p])

(***************************************************************************)
(* Values of the variables a specification does not use.                   *)
(***************************************************************************)
NoCache == stores = <<>> /\ fmts = <<>> /\ made = {} /\ calls = <<>>
NoConfig == heap = EmptyHeap /\ staticFormats = 0 /\ staticParse = TRUE /\ mutations = 0
NoFacade == instances = <<>> /\ lastNew = [outcome |-> "none"]
NoMerge == mIn = [d |-> 0, o |-> 0] /\ mOut = [pc |-> "idle"]
NoFormat == fIn = [pc |-> "idle"] /\ fOut = [pc |-> "idle"]

(***************************************************************************)
(* format and formatToParts.                                               *)
(*                                                                         *)
(* A JavaScript value is a record whose field t is its typeof; a part is   *)
(* {type, value}.                                                          *)
(***************************************************************************)
String(chars) == [t |-> "string", s |-> chars]
LiteralPart(chars) == [type |-> "literal", value |-> String(chars)]
ObjectPart(v) == [type |-> "object", value |-> v]

\* The values of object parts: what a tag's transform or a rich argument gives.
\* The number 0 is one that is falsy.
ObjectValues == {[t |-> "object", id |-> "b"], [t |-> "number", id |-> "0"]}
LiteralTexts == {<<>>, <<"a">>, <<"b">>}
Parts == {LiteralPart(c) : c \in LiteralTexts} \cup {ObjectPart(v) : v \in ObjectValues}

Truthy(v) == IF v.t = "string" THEN v.s # <<>> ELSE v.id # "0"

\* The final assembly of the interpreter: consecutive literal parts become one.
RECURSIVE mergeLiteral(_, _)
mergeLiteral(all, parts) ==
    IF parts = <<>>
    THEN all
    ELSE LET part == Head(parts)
             last == Len(all)
         IN  IF all = <<>> \/ all[last].type # "literal" \/ part.type # "literal"
             THEN mergeLiteral(Append(all, part), Tail(parts))
             ELSE mergeLiteral([all EXCEPT ![last] = LiteralPart(@.value.s \o part.value.s)],
                               Tail(parts))

\* formatToParts(values): the parts the interpreter gives for the message.
formatToParts(evaluated) == mergeLiteral(<<>>, evaluated)

\* The reduce of format over the parts, from `all`.
RECURSIVE reduceParts(_, _)
reduceParts(all, parts) ==
    IF parts = <<>>
    THEN all
    ELSE LET part == Head(parts)
             last == Len(all)
         IN  IF all = <<>> \/ part.type # "literal" \/ all[last].t # "string"
             THEN reduceParts(Append(all, part.value), Tail(parts))
             ELSE reduceParts([all EXCEPT ![last] = String(@.s \o part.value.s)], Tail(parts))

\* What format returns: one value, or an array of values.
Value(v) == [kind |-> "value", v |-> v]
Array(vs) == [kind |-> "array", v |-> vs]

\* (format without its hot path and without the unwrapping of one element)
formatAlwaysArray(parts) == Array(reduceParts(<<>>, parts))

\* format(values), on the parts formatToParts(values) returned.
format(parts) ==
    IF Len(parts) = 1
    THEN Value(parts[1].value)
    ELSE LET result == reduceParts(<<>>, parts) IN
         IF Len(result) <= 1
         THEN Value(IF result # <<>> /\ Truthy(result[1]) THEN result[1] ELSE String(<<>>))
         ELSE Array(result)

(***************************************************************************)
(* The class IntlMessageFormat.                                            *)
(***************************************************************************)
\* static formats: the default configuration.
DefaultFormats ==
    [number |->
        [currency |-> << <<"style", "currency">> >>,
         percent |-> << <<"style", "percent">> >>],
     date |->
        [short |-> << <<"month", "numeric">>, <<"day", "numeric">>, <<"year", "2-digit">> >>,
         medium |-> << <<"month", "short">>, <<"day", "numeric">>, <<"year", "numeric">> >>,
         long |-> << <<"month", "long">>, <<"day", "numeric">>, <<"year", "numeric">> >>,
         full |-> << <<"weekday", "long">>, <<"month", "long">>, <<"day", "numeric">>,
                     <<"year", "numeric">> >>],
     time |->
        [short |-> << <<"hour", "numeric">>, <<"minute", "numeric">> >>,
         medium |-> << <<"hour", "numeric">>, <<"minute", "numeric">>, <<"second", "numeric">> >>,
         long |-> << <<"hour", "numeric">>, <<"minute", "numeric">>, <<"second", "numeric">>,
                     <<"timeZoneName", "short">> >>,
         full |-> << <<"hour", "numeric">>, <<"minute", "numeric">>, <<"second", "numeric">>,
                     <<"timeZoneName", "short">> >>]]

\* The parser, IntlMessageFormat.__parse: an AST, or a SyntaxError.
Throw(error) == [outcome |-> error]
Ok(ast) == [outcome |-> "ok", ast |-> ast]
LiteralElement == [type |-> "literal", value |-> "hi"]
MalformedElement == [type |-> "none", value |-> "?"]
ArrayOf(els) == [t |-> "array", els |-> els]
parse(text) ==
    CASE text = "" -> Ok(ArrayOf(<<>>))
      [] text = "hi" -> Ok(ArrayOf(<<LiteralElement>>))
      [] OTHER -> Throw("SyntaxError")

\* The constructor up to its check of the AST: the AST, or what is thrown.
\* (the constructor with the check the error taxonomy describes)
constructorAstNonEmpty(message, parseSet) ==
    LET parsed == IF message.t = "string"
                  THEN IF ~parseSet THEN Throw("TypeError") ELSE parse(message.s)
                  ELSE Ok(message)
    IN  IF parsed.outcome # "ok" THEN parsed
        ELSE IF parsed.ast.t # "array" THEN Throw("TypeError")
        ELSE IF parsed.ast.els = <<>> THEN Throw("TypeError")
        ELSE IF \E i \in DOMAIN parsed.ast.els : parsed.ast.els[i].type = "none"
             THEN Throw("TypeError")
        ELSE parsed

constructorAst(message, parseSet) ==
    LET parsed == IF message.t = "string"
                  THEN IF ~parseSet THEN Throw("TypeError") ELSE parse(message.s)
                  ELSE Ok(message)
    IN  IF parsed.outcome # "ok" THEN parsed
        ELSE IF parsed.ast.t # "array" THEN Throw("TypeError")
        ELSE parsed

\* The initializer of the field formatterCache: a new, empty FormatterCache.
\* Returns the FormatterCache objects after it and the address of the new one.
\* (the field declared static: one object for every instance)
formatterCacheStatic(s) ==
    IF Len(s) >= 2
    THEN [stores |-> s, r |-> 2]
    ELSE [stores |-> Append(s, EmptyFormatterCache), r |-> Len(s) + 1]

formatterCache(s) == [stores |-> Append(s, EmptyFormatterCache), r |-> Len(s) + 1]

\* new IntlMessageFormat(message, locales, overrideFormats, {formatters}).
\* overrideFormats is undefined or the value of the caller's object literal;
\* formatters is 0 (not given) or the address of the caller's Formatters object.
\* An instance whose constructor throws is not kept, nor is its formatterCache.
Construct(message, locales, overrideFormats, formatters) ==
    LET a == constructorAst(message, staticParse) IN
    /\ Len(instances) < MaxInstances
    /\ lastOp' = "new"
    /\ lastNew' = [outcome |-> IF a.outcome = "ok" THEN "instance" ELSE a.outcome,
                   message |-> message, parse |-> staticParse, before |-> Len(instances)]
    /\ IF a.outcome # "ok"
       THEN UNCHANGED <<instances, heap, stores, fmts>>
       ELSE LET o == IF overrideFormats.t = "undefined"
                     THEN [h |-> heap, r |-> 0]
                     ELSE NewFormats(heap, overrideFormats.v)
                m == mergeConfigs(o.h, staticFormats, o.r)
                c == formatterCache(stores)
            IN  /\ heap' = m.h
                /\ stores' = c.stores
                /\ fmts' = IF formatters # 0 THEN fmts
                           ELSE Append(fmts, createDefaultFormatters(c.r))
                /\ instances' = Append(instances,
                      [ast |-> a.ast,
                       locales |-> locales,
                       formats |-> m.r,
                       formatters |-> IF formatters # 0 THEN formatters ELSE Len(fmts) + 1,
                       formatterCache |-> c.r,
                       message |-> IF message.t = "string" THEN message ELSE [t |-> "undefined"],
                       overrideFormats |-> overrideFormats,
                       givenFormatters |-> formatters])
    /\ UNCHANGED <<made, calls, staticFormats, staticParse, mutations, mergeVars, formatVars>>

\* IntlMessageFormat.__parse = undefined, or the parser again.
SetParse ==
    /\ staticParse' = ~staticParse
    /\ lastOp' = "__parse"
    /\ UNCHANGED <<heap, staticFormats, mutations, cacheVars, facadeVars, mergeVars, formatVars>>

\* IntlMessageFormat.formats = {...}: another object.
ReplaceFormats(v) ==
    /\ mutations < MaxMutations
    /\ LET n == NewFormats(heap, v) IN
          /\ heap' = n.h
          /\ staticFormats' = n.r
    /\ mutations' = mutations + 1
    /\ lastOp' = "replaceFormats"
    /\ UNCHANGED <<staticParse, cacheVars, facadeVars, mergeVars, formatVars>>

\* IntlMessageFormat.formats[k][p][key] = value
SetPresetOption(k, p, key, value) ==
    /\ mutations < MaxMutations
    /\ k \in DOMAIN heap.top[staticFormats]
    /\ p \in DOMAIN heap.cat[heap.top[staticFormats][k]]
    /\ LET a == heap.cat[heap.top[staticFormats][k]][p] IN
          heap' = [heap EXCEPT !.opt[a] = Spread(@, << <<key, value>> >>)]
    /\ mutations' = mutations + 1
    /\ lastOp' = "setPresetOption"
    /\ UNCHANGED <<staticFormats, staticParse, cacheVars, facadeVars, mergeVars, formatVars>>

\* IntlMessageFormat.formats[k][p] = {...}, for a new preset name p
AddPreset(k, p, options) ==
    /\ mutations < MaxMutations
    /\ k \in DOMAIN heap.top[staticFormats]
    /\ p \notin DOMAIN heap.cat[heap.top[staticFormats][k]]
    /\ LET c == heap.top[staticFormats][k] IN
          heap' = [heap EXCEPT !.opt = Append(@, options),
                               !.cat[c] = (p :> (Len(heap.opt) + 1)) @@ @]
    /\ mutations' = mutations + 1
    /\ lastOp' = "addPreset"
    /\ UNCHANGED <<staticFormats, staticParse, cacheVars, facadeVars, mergeVars, formatVars>>

\* delete IntlMessageFormat.formats[k][p]
RemovePreset(k, p) ==
    /\ mutations < MaxMutations
    /\ k \in DOMAIN heap.top[staticFormats]
    /\ p \in DOMAIN heap.cat[heap.top[staticFormats][k]]
    /\ LET c == heap.top[staticFormats][k] IN
          heap' = [heap EXCEPT !.cat[c] = [q \in DOMAIN @ \ {p} |-> @[q]]]
    /\ mutations' = mutations + 1
    /\ lastOp' = "removePreset"
    /\ UNCHANGED <<staticFormats, staticParse, cacheVars, facadeVars, mergeVars, formatVars>>

\* The state once the class is defined; the caller has a Formatters object of
\* its own, memoized on its own cache, to pass as opts.formatters.
ClassInit ==
    /\ LET n == NewFormats(EmptyHeap, DefaultFormats) IN
          /\ heap = n.h
          /\ staticFormats = n.r
    /\ staticParse = TRUE
    /\ mutations = 0
    /\ stores = <<EmptyFormatterCache>>
    /\ fmts = <<createDefaultFormatters(1)>>
    /\ made = {}
    /\ calls = <<>>
    /\ instances = <<>>
    /\ lastNew = [outcome |-> "none"]
    /\ lastOp = "init"
    /\ NoMerge /\ NoFormat


(***************************************************************************)
(* SpecConstruct: the constructor on any message, with and without the     *)
(* parser set.                                                             *)
(***************************************************************************)
Text(s) == [t |-> "string", s |-> s]
NoFormats == [t |-> "undefined"]
Overrides(v) == [t |-> "object", v |-> v]
CurrencyOverrides ==
    [number |-> [currency |-> << <<"currency", "USD">> >>,
                 custom |-> << <<"style", "percent">> >>]]

Messages ==
    { [t |-> "undefined"], [t |-> "object"],
      ArrayOf(<<>>), ArrayOf(<<LiteralElement>>), ArrayOf(<<LiteralElement, MalformedElement>>),
      Text(""), Text("hi"), Text("{") }

NewMessage ==
    \E message \in Messages, overrideFormats \in {NoFormats, Overrides(CurrencyOverrides)} :
        Construct(message, "en", overrideFormats, 0)

ConstructNext == NewMessage \/ SetParse

SpecConstruct == ClassInit /\ [][ConstructNext]_vars

\* The message is, after parsing when it is text, a non-empty array of
\* well-formed elements.
WellFormedMessage(message) ==
    LET ast == IF message.t = "string"
               THEN (IF parse(message.s).outcome = "ok" THEN parse(message.s).ast
                     ELSE [t |-> "undefined"])
               ELSE message
    IN  /\ ast.t = "array"
        /\ ast.els # <<>>
        /\ \A i \in DOMAIN ast.els : ast.els[i].type # "none"

\* C7, as stated: the constructor throws, and there is no instance, whenever
\* the message is not a non-empty array of well-formed elements.
C7_MalformedRejected ==
    (lastNew.outcome # "none" /\ ~WellFormedMessage(lastNew.message)) =>
        /\ lastNew.outcome # "instance"
        /\ Len(instances) = lastNew.before

\* C7, amended: the constructor throws a TypeError, and there is no instance,
\* exactly when the message is text and no parser is set, or is (after parsing)
\* not an array; a SyntaxError of the parser is passed on; every array, the
\* empty one and one with malformed elements included, gives an instance.
C7_NonArrayRejected ==
    lastNew.outcome # "none" =>
        LET message == lastNew.message
            text == message.t = "string"
            parsed == text /\ lastNew.parse /\ parse(message.s).outcome = "ok"
        IN  /\ lastNew.outcome = "TypeError" <=>
                  \/ text /\ ~lastNew.parse
                  \/ ~text /\ message.t # "array"
            /\ lastNew.outcome = "SyntaxError" <=>
                  text /\ lastNew.parse /\ parse(message.s).outcome = "SyntaxError"
            /\ lastNew.outcome = "instance" <=> (parsed \/ message.t = "array")
            /\ Len(instances) = lastNew.before + (IF lastNew.outcome = "instance" THEN 1 ELSE 0)
            /\ lastNew.outcome = "instance" =>
                  instances[Len(instances)].ast = IF text THEN parse(message.s).ast ELSE message

C7_Witness ==
    /\ lastNew.outcome = "instance"
    /\ Len(instances) = 2
    /\ instances[1].ast = ArrayOf(<<>>)
    /\ instances[2].ast = ArrayOf(<<LiteralElement, MalformedElement>>)

(***************************************************************************)
(* SpecDefaults: instances constructed with and without override formats,  *)
(* and changes of IntlMessageFormat.formats.                               *)
(***************************************************************************)
ConfigOverrides == {NoFormats, Overrides(CurrencyOverrides), Overrides(EmptyObject)}
ReplacementFormats ==
    [number |-> [currency |-> << <<"style", "currency">>, <<"currencyDisplay", "code">> >>],
     date |-> [short |-> << <<"dateStyle", "short">> >>],
     time |-> [short |-> << <<"timeStyle", "short">> >>]]
ChangedCategories == {"number", "date"}
ChangedPresets == {"currency", "short"}

NewWithFormats ==
    \E overrideFormats \in ConfigOverrides :
        Construct(ArrayOf(<<LiteralElement>>), "en", overrideFormats, 0)

StaticReplaceFormats == ReplaceFormats(ReplacementFormats)

StaticSetPresetOption ==
    \E k \in ChangedCategories, p \in ChangedPresets : SetPresetOption(k, p, "style", "decimal")

StaticAddPreset ==
    \E k \in ChangedCategories : AddPreset(k, "custom", << <<"style", "decimal">> >>)

StaticRemovePreset ==
    \E k \in ChangedCategories, p \in ChangedPresets : RemovePreset(k, p)

DefaultsNext ==
    \/ NewWithFormats
    \/ StaticReplaceFormats
    \/ StaticSetPresetOption
    \/ StaticAddPreset
    \/ StaticRemovePreset

SpecDefaults == ClassInit /\ [][DefaultsNext]_vars

\* The formats instance i uses.
InstanceFormats(h, i) == FormatsValue(h, instances[i].formats)
\* The categories instance i was constructed with an override for.
Overridden(i) ==
    IF instances[i].overrideFormats.t = "undefined" THEN {}
    ELSE DOMAIN instances[i].overrideFormats.v

\* C8, as stated: no change of IntlMessageFormat.formats changes the formats an
\* existing instance uses.
C8_InstanceFormatsFrozen ==
    [][\A i \in DOMAIN instances : InstanceFormats(heap', i) = InstanceFormats(heap, i)]_vars

\* C8, amended: replacing IntlMessageFormat.formats by another object leaves the
\* formats of every existing instance unchanged, and so does constructing
\* another instance; adding, removing or modifying a preset of the object in
\* place leaves unchanged the categories an instance was constructed with an
\* override for.
C8_ReplacementDoesNotReach ==
    [][\A i \in DOMAIN instances :
          /\ lastOp' \in {"replaceFormats", "new"} =>
                InstanceFormats(heap', i) = InstanceFormats(heap, i)
          /\ \A k \in Overridden(i) \cap DOMAIN InstanceFormats(heap, i) :
                /\ k \in DOMAIN InstanceFormats(heap', i)
                /\ InstanceFormats(heap', i)[k] = InstanceFormats(heap, i)[k]
      ]_vars

C8_Witness ==
    /\ lastOp = "setPresetOption"
    /\ \E i \in DOMAIN instances :
          /\ "number" \in Overridden(i)
          /\ Lookup(InstanceFormats(heap, i).number.currency, "style") = "currency"
          /\ Lookup(FormatsValue(heap, staticFormats).number.currency, "style") = "decimal"
    /\ \E i \in DOMAIN instances :
          /\ Overridden(i) = {}
          /\ Lookup(InstanceFormats(heap, i).number.currency, "style") = "decimal"

(***************************************************************************)
(* SpecShare: instances constructed with their own formatters or with the  *)
(* caller's, and format calls on them.                                     *)
(***************************************************************************)
NewWithFormatters ==
    \E formatters \in {0, 1} :
        Construct(ArrayOf(<<LiteralElement>>), "en", NoFormats, formatters)

\* format or formatToParts on instance i, for a message whose number, date or
\* time, or plural element asks the instance's formatters for a primitive.
InstanceFormat(i, getter, options) ==
    /\ Len(calls) < MaxCalls
    /\ Getter(instances[i].formatters, getter, instances[i].locales, options)
    /\ lastOp' = "format"
    /\ UNCHANGED <<configVars, facadeVars, mergeVars, formatVars>>

FormatNumberElement ==
    \E i \in DOMAIN instances, style \in {"currency", "percent"} :
        InstanceFormat(i, "number", Obj(CategoryValue(heap, heap.top[instances[i].formats].number)[style]))

FormatDateElement ==
    \E i \in DOMAIN instances :
        InstanceFormat(i, "dateTime", Obj(CategoryValue(heap, heap.top[instances[i].formats].date)["short"]))

FormatPluralElement ==
    \E i \in DOMAIN instances :
        InstanceFormat(i, "pluralRules", Obj(<< <<"type", "cardinal">> >>))

ShareNext ==
    \/ NewWithFormatters
    \/ FormatNumberElement
    \/ FormatDateElement
    \/ FormatPluralElement

SpecShare == ClassInit /\ [][ShareNext]_vars


\* The FormatterCache behind the formatters of instance i.
CacheOf(f, i) == f[instances[i].formatters].cache
OwnFormatters(i) == instances[i].givenFormatters = 0

\* C9: an instance constructed without formatters has a FormatterCache no other
\* instance and no Formatters object of the caller uses, empty when the
\* instance is constructed; a format call on such an instance leaves the cache
\* of every other instance as it was; and two instances get the same primitive
\* instance only when both were given the same Formatters object.
C9_PrivateCache ==
    [][/\ \A i \in DOMAIN instances' : OwnFormatters(i)' =>
             /\ \A j \in DOMAIN instances' \ {i} : fmts'[instances'[j].formatters].cache # fmts'[instances'[i].formatters].cache
             /\ fmts'[instances'[i].formatters].cache # fmts'[1].cache
             /\ i \notin DOMAIN instances => stores'[fmts'[instances'[i].formatters].cache] = EmptyFormatterCache
       /\ lastOp' = "format" =>
             \A i \in DOMAIN instances :
                 (OwnFormatters(i) /\ instances[i].formatters = calls'[Len(calls')].f) =>
                     \A j \in DOMAIN instances \ {i} :
                         stores'[CacheOf(fmts, j)] = stores[CacheOf(fmts, j)]
       /\ \A i, j \in DOMAIN instances' :
             (/\ i # j
              /\ \E a, b \in DOMAIN calls' :
                    /\ calls'[a].f = instances'[i].formatters
                    /\ calls'[b].f = instances'[j].formatters
                    /\ calls'[a].value = calls'[b].value)
             => /\ ~OwnFormatters(i)'
                /\ instances'[i].givenFormatters = instances'[j].givenFormatters
      ]_vars

C9_Witness ==
    /\ Len(instances) = 2
    /\ OwnFormatters(1) /\ OwnFormatters(2)
    /\ \E a, b \in DOMAIN calls :
          /\ calls[a].f = instances[1].formatters
          /\ calls[b].f = instances[2].formatters
          /\ calls[a].getter = calls[b].getter
          /\ calls[a].options = calls[b].options
          /\ calls[a].value # calls[b].value
    /\ stores[CacheOf(fmts, 1)] # EmptyFormatterCache
    /\ stores[CacheOf(fmts, 2)] # EmptyFormatterCache

(***************************************************************************)
(* SpecFormat: format on what any message of at most MaxParts parts        *)
(* evaluates to.                                                           *)
(***************************************************************************)
RECURSIVE SeqsUpTo(_, _)
SeqsUpTo(S, n) ==
    IF n = 0 THEN {<<>>}
    ELSE LET shorter == SeqsUpTo(S, n - 1) IN
         shorter \cup {Append(q, x) : q \in shorter, x \in S}

FormatInit ==
    /\ fIn \in {[pc |-> "evaluated", evaluated |-> e, parts |-> <<>>] : e \in SeqsUpTo(Parts, MaxParts)}
    /\ fOut = [pc |-> "idle"]
    /\ lastOp = "init"
    /\ NoCache /\ NoConfig /\ NoFacade /\ NoMerge

FormatToParts ==
    /\ fIn.pc = "evaluated"
    /\ fIn' = [fIn EXCEPT !.pc = "parts", !.parts = formatToParts(fIn.evaluated)]
    /\ lastOp' = "formatToParts"
    /\ UNCHANGED <<fOut, cacheVars, configVars, facadeVars, mergeVars>>

Format ==
    /\ fIn.pc = "parts"
    /\ fOut.pc = "idle"
    /\ fOut' = [pc |-> "done", r |-> format(fIn.parts)]
    /\ lastOp' = "format"
    /\ UNCHANGED <<fIn, cacheVars, configVars, facadeVars, mergeVars>>

FormatNext == FormatToParts \/ Format

SpecFormat == FormatInit /\ [][FormatNext]_vars

\* The characters and the objects of a sequence of values, in order.
RECURSIVE Flatten(_)
Flatten(vs) ==
    IF vs = <<>>
    THEN <<>>
    ELSE (IF Head(vs).t = "string"
          THEN [i \in DOMAIN Head(vs).s |-> [t |-> "char", id |-> Head(vs).s[i]]]
          ELSE <<Head(vs)>>)
         \o Flatten(Tail(vs))

PartValues(parts) == [i \in DOMAIN parts |-> parts[i].value]

CacheInit ==
    /\ stores = <<EmptyFormatterCache>>
    /\ fmts = <<createDefaultFormatters(1)>>
    /\ made = {}
    /\ calls = <<>>
    /\ lastOp = "createDefaultFormatters"
    /\ NoConfig /\ NoFacade /\ NoMerge /\ NoFormat

CacheGetNumberFormat ==
    /\ Len(calls) < MaxCalls
    /\ \E locales \in Locales, options \in OptionArgs : getNumberFormat(1, locales, options)
    /\ lastOp' = "getNumberFormat"
    /\ UNCHANGED <<configVars, facadeVars, mergeVars, formatVars>>

CacheGetDateTimeFormat ==
    /\ Len(calls) < MaxCalls
    /\ \E locales \in Locales, options \in OptionArgs : getDateTimeFormat(1, locales, options)
    /\ lastOp' = "getDateTimeFormat"
    /\ UNCHANGED <<configVars, facadeVars, mergeVars, formatVars>>

CacheGetPluralRules ==
    /\ Len(calls) < MaxCalls
    /\ \E locales \in Locales, options \in OptionArgs : getPluralRules(1, locales, options)
    /\ lastOp' = "getPluralRules"
    /\ UNCHANGED <<configVars, facadeVars, mergeVars, formatVars>>

CacheNext == CacheGetNumberFormat \/ CacheGetDateTimeFormat \/ CacheGetPluralRules

SpecCache == CacheInit /\ [][CacheNext]_vars

\* The options of a record that have a value, whatever their order.
DefinedOptions(a) ==
    [k \in {q \in Keys(a.props) : Lookup(a.props, q) # Undefined} |-> Lookup(a.props, k)]

SameGetter(a, b) == a.f = b.f /\ a.getter = b.getter

\* C1: two calls of one getter with deep-equal (locales, options) return the
\* same instance, whatever calls happen between them.
C1_DeepEqualSameInstance ==
    \A i, j \in DOMAIN calls :
        (/\ SameGetter(calls[i], calls[j])
         /\ calls[i].locales = calls[j].locales
         /\ DeepEqual(calls[i].options, calls[j].options))
        => calls[i].value = calls[j].value

C10_AppendOnly ==
    [][LET c == calls'[Len(calls')]
           s == fmts[c.f].cache
           key == serializer(c.locales, c.options)
           before == stores[s][c.getter]
           after == stores'[s][c.getter]
       IN  /\ \A a \in DOMAIN stores : \A g \in Getters : \A k \in DOMAIN stores[a][g] :
                  /\ k \in DOMAIN stores'[a][g]
                  /\ stores'[a][g][k] = stores[a][g][k]
           /\ IF has(before, key)
              THEN /\ c.value = before[key]
                   /\ made' = made
                   /\ stores' = stores
              ELSE /\ c.value \notin made
                   /\ made' = made \cup {c.value}
                   /\ stores' = [stores EXCEPT ![s][c.getter] = (key :> c.value) @@ before]
      ]_cacheVars

C10_Witness ==
    /\ Len(calls) = 3
    /\ calls[1].getter = calls[2].getter
    /\ calls[1].value # calls[2].value
    /\ calls[3] = calls[1]
    /\ Cardinality(made) = 2

(***************************************************************************)
(* SpecMerge: mergeConfigs on any defaults and overrides of a small        *)
(* vocabulary, and again on its own result.                                *)
(***************************************************************************)
MergeRecords ==
    { <<>>,
      << <<"style", "currency">> >>,
      << <<"style", "percent">>, <<"currency", "USD">> >>,
      << <<"currency", "EUR">> >> }
MergePresets == [number |-> {"currency", "percent"}, date |-> {"short"}]
MergeCategories(k) == UNION {[S -> MergeRecords] : S \in SUBSET MergePresets[k]}
\* Formats values with any of the categories, each with any of its presets.
MergeFormats ==
    UNION {{v \in [K -> UNION {MergeCategories(k) : k \in K}] :
                \A k \in K : v[k] \in MergeCategories(k)} : K \in SUBSET DOMAIN MergePresets}

MergeInit ==
    /\ \E dv \in MergeFormats :
          LET d == NewFormats(EmptyHeap, dv) IN
          \/ /\ heap = d.h
             /\ mIn = [d |-> d.r, o |-> 0, heap |-> d.h]
          \/ \E ov \in MergeFormats :
                LET o == NewFormats(d.h, ov) IN
                /\ heap = o.h
                /\ mIn = [d |-> d.r, o |-> o.r, heap |-> o.h]
    /\ mOut = [pc |-> "start", m |-> 0, mm |-> 0]
    /\ staticFormats = 0 /\ staticParse = TRUE /\ mutations = 0
    /\ lastOp = "init"
    /\ NoCache /\ NoFacade /\ NoFormat

\* m = mergeConfigs(d, o)
MergeOnce ==
    /\ mOut.pc = "start"
    /\ LET r == mergeConfigs(heap, mIn.d, mIn.o) IN
          /\ heap' = r.h
          /\ mOut' = [pc |-> "merged", m |-> r.r, mm |-> 0]
    /\ lastOp' = "mergeConfigs"
    /\ UNCHANGED <<mIn, staticFormats, staticParse, mutations, cacheVars, facadeVars, formatVars>>

\* mm = mergeConfigs(m, o)
MergeAgain ==
    /\ mOut.pc = "merged"
    /\ LET r == mergeConfigs(heap, mOut.m, mIn.o) IN
          /\ heap' = r.h
          /\ mOut' = [mOut EXCEPT !.pc = "remerged", !.mm = r.r]
    /\ lastOp' = "mergeConfigs"
    /\ UNCHANGED <<mIn, staticFormats, staticParse, mutations, cacheVars, facadeVars, formatVars>>

MergeNext == MergeOnce \/ MergeAgain

SpecMerge == MergeInit /\ [][MergeNext]_vars

\* The arguments and the results of the merge under test, as values.
MDefaults == FormatsValue(mIn.heap, mIn.d)
MOverrides == IF mIn.o = 0 THEN EmptyObject ELSE FormatsValue(mIn.heap, mIn.o)
MMerged == FormatsValue(heap, mOut.m)
MRemerged == FormatsValue(heap, mOut.mm)
OverridePresets(k) == IF k \in DOMAIN MOverrides THEN DOMAIN MOverrides[k] ELSE {}

\* C2, as stated: every category of the merged configuration has exactly the
\* preset names that category has in defaults.
C2_NoPresetAdded ==
    mOut.pc # "start" =>
        \A k \in DOMAIN MMerged : DOMAIN MMerged[k] = DOMAIN MDefaults[k]

\* C2, amended: the merged configuration has the categories of defaults, and
\* each has the preset names of that category in defaults and in overrides; a
\* preset that exists only in overrides is added as it is.
C2_OverridePresetsAdded ==
    mOut.pc # "start" =>
        /\ DOMAIN MMerged = DOMAIN MDefaults
        /\ \A k \in DOMAIN MMerged :
              /\ DOMAIN MMerged[k] = DOMAIN MDefaults[k] \cup OverridePresets(k)
              /\ \A p \in OverridePresets(k) \ DOMAIN MDefaults[k] :
                    MMerged[k][p] = MOverrides[k][p]

C2_Witness ==
    /\ mOut.pc = "merged"
    /\ \E k \in DOMAIN MMerged : \E p \in OverridePresets(k) :
          /\ p \notin DOMAIN MDefaults[k]
          /\ DOMAIN MDefaults[k] # {}
    /\ \E k \in DOMAIN MOverrides : k \notin DOMAIN MDefaults

\* C5: a preset of defaults has, after the merge, every option of the default
\* preset and of the override preset of the same name, with the override's value
\* for the options the override defines and the default's value for the others.
C5_PresetOptionsMerged ==
    mOut.pc # "start" =>
        \A k \in DOMAIN MDefaults : \A p \in DOMAIN MDefaults[k] :
            LET d == MDefaults[k][p]
                o == IF p \in OverridePresets(k) THEN MOverrides[k][p] ELSE <<>>
                m == MMerged[k][p]
            IN  /\ Keys(m) = Keys(d) \cup Keys(o)
                /\ \A q \in Keys(m) :
                      Lookup(m, q) = IF q \in Keys(o) THEN Lookup(o, q) ELSE Lookup(d, q)

C5_Witness ==
    /\ mOut.pc = "merged"
    /\ \E k \in DOMAIN MDefaults : \E p \in DOMAIN MDefaults[k] \cap OverridePresets(k) :
          LET d == MDefaults[k][p]
              o == MOverrides[k][p]
          IN  /\ Keys(d) \ Keys(o) # {}
              /\ \E q \in Keys(d) \cap Keys(o) : Lookup(d, q) # Lookup(o, q)

\* C6: merging the overrides into the merged configuration again gives a
\* configuration deep-equal to it; and without overrides mergeConfigs returns
\* the defaults object itself and changes nothing.
C6_Idempotent ==
    /\ mOut.pc = "remerged" => DeepEqualFormats(MRemerged, MMerged)
    /\ (mOut.pc # "start" /\ mIn.o = 0) =>
          /\ mOut.m = mIn.d
          /\ heap = mIn.heap

C6_Witness ==
    /\ mOut.pc = "remerged"
    /\ mIn.o # 0
    /\ ~DeepEqualFormats(MMerged, MDefaults)
    /\ \E k \in DOMAIN MMerged : OverridePresets(k) \ DOMAIN MDefaults[k] # {}
    /\ \E k \in DOMAIN MMerged : OverridePresets(k) \cap DOMAIN MDefaults[k] # {}

====
